---- MODULE Spec2Model ----
(***************************************************************************)
(* Verification model of the CAD geometry-analysis service                 *)
(* (geometry-service/app.py).                                              *)
(*                                                                         *)
(*   Spec      classify_mesh_faces: step 1 (cylindrical faces, locked) and *)
(*             step 2 (multi-pass propagation over the face adjacency).    *)
(*   EdgeSpec  extract_feature_edges: the scan over the shape's edges with *)
(*             calculate_dihedral_angle / get_face_normal_at_point.        *)
(*   FeatureSpec  recognize_manufacturing_features: the loop over the      *)
(*             faces of the solid and the threshold table.                 *)
(*   AnalyzeSpec  analyze_cad: one request, from the upload through        *)
(*             feature recognition, tessellation, classification and the   *)
(*             edge scan to the response.                                  *)
(*   RepeatSpec  analyze_cad serving the same upload again in the same     *)
(*             process.                                                    *)
(*   TessSpec  tessellate_shape: the loop that merges the per-face         *)
(*             triangulations into the vertex and index buffers.           *)
(*                                                                         *)
(* and of the mesh service (mesh-service/mesh_service.py):                 *)
(*                                                                         *)
(*   MeshSpec  /mesh-cad requests served by concurrent threads around      *)
(*             gmsh_lock and the Gmsh session.                             *)
(*   MeshFairSpec  MeshSpec under fair scheduling of the threads.          *)
(*                                                                         *)
(* Floating-point angles are modelled in whole degrees.                    *)
(***************************************************************************)
EXTENDS Integers, Sequences, FiniteSets, TLC

VARIABLES
    \* ---- classify_mesh_faces ----
    face_data,             \* mesh_data["face_data"]: Seq of face records
    edge_face_map,         \* edge -> list of the faces that own it
    face_classifications,  \* face_idx -> label, NONE while absent from the dict
    locked_faces,          \* set of face_idx
    vertex_colors,         \* vertex index (0-based) -> label
    iteration,             \* loop variable of "for iteration in range(max_iterations)"
    pos,                   \* position of the inner "for face_info in face_data"
    changes_made,
    pc,                    \* "step1" | "propagate" | "done" | "idle"
    settled,               \* history: label taken by a face evaluated with unanimous neighbours
    \* ---- extract_feature_edges ----
    edges,                 \* the edges in the order TopExp_Explorer visits them
    max_edges,             \* the max_edges argument
    cursor,                \* position of edge_explorer
    edge_count,
    feature_edges,         \* Seq of polylines [edge |-> visit index, points |-> count]
    stats,
    epc,                   \* "scan" | "returned" | "idle"
    \* ---- recognize_manufacturing_features ----
    shape,                 \* the solid: its faces, bounding box, edge map and edges
    fcursor,               \* position of "for face in all_faces"
    features,              \* the features dict: one list per category
    fpc,                   \* "scan" | "returned" | "raised" | "idle"
    \* ---- analyze_cad ----
    apc,                   \* the statement analyze_cad has reached, "idle" outside a request
    response,              \* the HTTP response, http = 0 until one is returned
    served,                \* history: the results of the requests served so far
    \* ---- tessellate_shape ----
    triangulations,        \* BRep_Tool.Triangulation of the faces, in explorer order
    face_idx,              \* position of face_explorer in the extraction loop
    current_index,         \* number of vertices appended so far
    indices,               \* the merged triangle index buffer
    tpc,                   \* "extract" | "returned" | "idle"
    \* ---- mesh service ----
    gmsh_lock,             \* the thread holding gmsh_lock, 0 when it is free
    gmsh_initialized,      \* whether the Gmsh session of the process is initialized
    mpc,                   \* thread -> the statement it has reached
    mresponse              \* thread -> HTTP status of its last response, 0 before any

classifyVars == <<face_data, edge_face_map, face_classifications, locked_faces,
                  vertex_colors, iteration, pos, changes_made, pc, settled>>
edgeVars == <<edges, max_edges, cursor, edge_count, feature_edges, stats, epc>>
featureVars == <<shape, fcursor, features, fpc>>
analyzeVars == <<apc, response, served>>
tessVars == <<triangulations, face_idx, current_index, indices, tpc>>
meshVars == <<gmsh_lock, gmsh_initialized, mpc, mresponse>>
vars == <<classifyVars, edgeVars, featureVars, analyzeVars, tessVars, meshVars>>

-----------------------------------------------------------------------------
(* Bounds of the model *)

\* faces of an arbitrary small shape
MaxFaces == 3
\* faces of a strip of faces (a chain, a ring, a chain ending in a triangle)
MaxChain == 12
\* faces around the hub of a star-shaped neighbourhood
MaxLeaves == 3
\* triangulation nodes of a planar face (a curved face has one more)
MaxVerts == 2
\* edges of a shape given to extract_feature_edges
MaxEdgeSeq == 2
\* small values of the max_edges argument
MaxBudget == 2

(* Program constants *)
max_iterations == 10
DefaultMaxEdges == 500
angle_threshold_degrees == 20

-----------------------------------------------------------------------------
(* Labels and surface types *)

NONE == "none"
Labels == {"external", "internal", "through", "planar"}

GeomAbs_Plane == "Plane"
GeomAbs_Cylinder == "Cylinder"
GeomAbs_Other == "Other"

Range(s) == {s[i] : i \in DOMAIN s}

\* What the kernel reports for one face: its surface type and, for a cylinder,
\* whether BRepAdaptor_Surface(...).Cylinder() raises, the sign of
\* dist_to_axis - bbox_to_axis, and radius < bbox_size * 0.15.
FaceKinds ==
    { [surf_type |-> GeomAbs_Plane, raises |-> FALSE, axis_cmp |-> 0, is_small_hole |-> FALSE],
      [surf_type |-> GeomAbs_Other, raises |-> FALSE, axis_cmp |-> 0, is_small_hole |-> FALSE],
      [surf_type |-> GeomAbs_Cylinder, raises |-> TRUE, axis_cmp |-> 0, is_small_hole |-> FALSE],
      [surf_type |-> GeomAbs_Cylinder, raises |-> FALSE, axis_cmp |-> 1, is_small_hole |-> FALSE],
      [surf_type |-> GeomAbs_Cylinder, raises |-> FALSE, axis_cmp |-> 0, is_small_hole |-> FALSE],
      [surf_type |-> GeomAbs_Cylinder, raises |-> FALSE, axis_cmp |-> -1, is_small_hole |-> TRUE],
      [surf_type |-> GeomAbs_Cylinder, raises |-> FALSE, axis_cmp |-> -1, is_small_hole |-> FALSE] }

PlaneKind == [surf_type |-> GeomAbs_Plane, raises |-> FALSE, axis_cmp |-> 0, is_small_hole |-> FALSE]
BoreKind == [surf_type |-> GeomAbs_Cylinder, raises |-> FALSE, axis_cmp |-> -1, is_small_hole |-> FALSE]
OuterCylKind == [surf_type |-> GeomAbs_Cylinder, raises |-> FALSE, axis_cmp |-> 1, is_small_hole |-> FALSE]

-----------------------------------------------------------------------------
(* tessellate_shape: the per-face vertex ranges of the merged buffers *)

\* triangulation.NbNodes() of a face: curved faces are meshed finer
NbNodes(kind, base) == IF kind.surf_type = GeomAbs_Plane THEN base ELSE base + 1

RECURSIVE StartVertex(_, _, _)
\* current_index when face f is reached: the nodes of the faces before it
StartVertex(kinds, base, f) ==
    IF f = 1 THEN 0
    ELSE StartVertex(kinds, base, f - 1) + NbNodes(kinds[f - 1], base)

\* face_data as tessellate_shape builds it (face_idx is the position)
FaceData(kinds, base) ==
    [f \in DOMAIN kinds |->
        [face_idx |-> f,
         surf_type |-> kinds[f].surf_type,
         start_vertex |-> StartVertex(kinds, base, f),
         vertex_count |-> NbNodes(kinds[f], base),
         raises |-> kinds[f].raises,
         axis_cmp |-> kinds[f].axis_cmp,
         is_small_hole |-> kinds[f].is_small_hole]]

\* len(vertices) // 3
VertexCount(fd) ==
    IF Len(fd) = 0 THEN 0 ELSE fd[Len(fd)].start_vertex + fd[Len(fd)].vertex_count

-----------------------------------------------------------------------------
(* Shapes given to classify_mesh_faces *)

\* the edge -> faces map of a set of adjacent face pairs, in index order
EdgeMapOf(n, adj) ==
    LET all == [k \in 1..(n * n) |-> <<((k - 1) \div n) + 1, ((k - 1) % n) + 1>>]
        Shared(p) == p[1] < p[2] /\ {p[1], p[2]} \in adj
    IN  SelectSeq(all, Shared)

PairsOf(n) == {{i, j} : i \in 1..n, j \in 1..n} \ {{i} : i \in 1..n}

\* strips: faces 1..n in a row, the two end faces of any of three kinds,
\* open, closed to a ring, or with faces 1,2,3 forming a triangle
ChainEndKinds == {PlaneKind, BoreKind, OuterCylKind}
ChainClosures == {"open", "ring", "triangle"}
ChainKinds(n, first, last) ==
    [f \in 1..n |-> IF f = 1 THEN first ELSE IF f = n THEN last ELSE PlaneKind]
ChainAdj(n, closure) ==
    {{i, i + 1} : i \in 1..(n - 1)}
      \cup (IF closure = "ring" /\ n >= 3 THEN {{1, n}} ELSE {})
      \cup (IF closure = "triangle" /\ n >= 3 THEN {{1, 3}} ELSE {})

\* stars: a hub face (face 1) and the faces around it, of which the first two
\* may touch each other
HubKinds == {PlaneKind, [PlaneKind EXCEPT !.surf_type = GeomAbs_Cylinder, !.raises = TRUE]}
StarKinds(n, hub, leaves) == [f \in 1..(n + 1) |-> IF f = 1 THEN hub ELSE leaves[f - 1]]
StarAdj(n, rim) == {{1, f} : f \in 2..(n + 1)} \cup (IF rim THEN {{2, 3}} ELSE {})

-----------------------------------------------------------------------------
(* classify_mesh_faces, step 1 *)

\* TopExp_Explorer(face_object, TopAbs_EDGE): the edges of the map that face f owns
EdgesOf(f) == {e \in DOMAIN edge_face_map : f \in Range(edge_face_map[e])}

\* other_dist > other_bbox_dist for a cylindrical neighbour (an exception is swallowed)
IsOuterCylinder(g) ==
    /\ face_data[g].surf_type = GeomAbs_Cylinder
    /\ ~face_data[g].raises
    /\ face_data[g].axis_cmp = 1

\* the through-hole test of a small inner cylinder
HasOuterNeighbor(f) ==
    \E e \in EdgesOf(f) : \E g \in Range(edge_face_map[e]) : IsOuterCylinder(g)

\* face_type of a cylindrical face whose classification does not raise
CylinderType(f) ==
    IF face_data[f].axis_cmp < 0
    THEN IF face_data[f].is_small_hole
         THEN IF HasOuterNeighbor(f) THEN "through" ELSE "internal"
         ELSE "internal"
    ELSE "external"

\* the vertices of a face: range(start_vertex, start_vertex + vertex_count)
VertexRangeShort(face_info) ==
    face_info.start_vertex .. (face_info.start_vertex + face_info.vertex_count - 2)
VertexRange(face_info) ==
    face_info.start_vertex .. (face_info.start_vertex + face_info.vertex_count - 1)

IsCylinder(f) == face_data[f].surf_type = GeomAbs_Cylinder
ClassifiedInStep1(f) == IsCylinder(f) /\ ~face_data[f].raises

\* face_classifications after the loop of step 1
Step1Classifications ==
    [f \in DOMAIN face_data |->
        IF ~IsCylinder(f) THEN NONE
        ELSE IF face_data[f].raises THEN "external"
        ELSE CylinderType(f)]

\* vertex_colors after the loop of step 1: "external" unless painted
Step1Colors ==
    [v \in 0..(VertexCount(face_data) - 1) |->
        IF \E f \in DOMAIN face_data : ClassifiedInStep1(f) /\ v \in VertexRange(face_data[f])
        THEN LET f == CHOOSE f \in DOMAIN face_data :
                          ClassifiedInStep1(f) /\ v \in VertexRange(face_data[f])
             IN  CylinderType(f)
        ELSE "external"]

ClassifyCylinders ==
    /\ pc = "step1"
    /\ face_classifications' = Step1Classifications
    /\ locked_faces' = {f \in DOMAIN face_data : ClassifiedInStep1(f)}
    /\ vertex_colors' = Step1Colors
    /\ iteration' = 0
    /\ pos' = 1
    /\ changes_made' = FALSE
    /\ pc' = "propagate"
    /\ UNCHANGED <<face_data, edge_face_map, settled>>
    /\ UNCHANGED <<edgeVars, featureVars, analyzeVars>>
    /\ UNCHANGED <<tessVars, meshVars>>

-----------------------------------------------------------------------------
(* classify_mesh_faces, step 2: multi-pass propagation *)

\* the labels appended to neighbor_types for one edge of face f
EdgeNeighborTypes(f, e, cls) ==
    LET Counted(g) == g # f /\ cls[g] # NONE
        others == SelectSeq(edge_face_map[e], Counted)
    IN  [i \in 1..Len(others) |-> cls[others[i]]]

RECURSIVE NeighborTypesFrom(_, _, _)
NeighborTypesFrom(f, e, cls) ==
    IF e > Len(edge_face_map) THEN <<>>
    ELSE (IF f \in Range(edge_face_map[e]) THEN EdgeNeighborTypes(f, e, cls) ELSE <<>>)
             \o NeighborTypesFrom(f, e + 1, cls)

\* neighbor_types of face f under the labelling cls
NeighborTypes(f, cls) == NeighborTypesFrom(f, 1, cls)

\* new_type, with "through" wrongly ranked above "internal"
NewTypeThroughFirst(f, cls) ==
    LET neighbor_types == Range(NeighborTypes(f, cls))
    IN  IF neighbor_types # {}
        THEN IF "through" \in neighbor_types THEN "through"
             ELSE IF "internal" \in neighbor_types THEN "internal"
             ELSE "external"
        ELSE IF cls[f] = NONE
             THEN (IF face_data[f].surf_type = GeomAbs_Plane THEN "planar" ELSE "external")
             ELSE cls[f]

\* new_type, with a face that already has a label keeping it
NewTypeKeepsCurrent(f, cls) ==
    LET neighbor_types == Range(NeighborTypes(f, cls))
    IN  IF cls[f] # NONE THEN cls[f]
        ELSE IF neighbor_types # {}
        THEN IF "internal" \in neighbor_types THEN "internal"
             ELSE IF "through" \in neighbor_types THEN "through"
             ELSE "external"
        ELSE (IF face_data[f].surf_type = GeomAbs_Plane THEN "planar" ELSE "external")

\* new_type, with "external" wrongly ranked above the other labels
NewTypeExternalFirst(f, cls) ==
    LET neighbor_types == Range(NeighborTypes(f, cls))
    IN  IF neighbor_types # {}
        THEN IF neighbor_types \cap {"external", "planar"} # {} THEN "external"
             ELSE IF "through" \in neighbor_types THEN "through"
             ELSE "internal"
        ELSE IF cls[f] = NONE
             THEN (IF face_data[f].surf_type = GeomAbs_Plane THEN "planar" ELSE "external")
             ELSE cls[f]

\* new_type, with "internal" adopted only when every labelled neighbour is internal
NewTypeInternalIfAll(f, cls) ==
    LET neighbor_types == Range(NeighborTypes(f, cls))
    IN  IF neighbor_types # {}
        THEN IF neighbor_types = {"internal"} THEN "internal"
             ELSE IF "through" \in neighbor_types THEN "through"
             ELSE "external"
        ELSE IF cls[f] = NONE
             THEN (IF face_data[f].surf_type = GeomAbs_Plane THEN "planar" ELSE "external")
             ELSE cls[f]

\* new_type of face f under the labelling cls
NewType(f, cls) ==
    LET neighbor_types == Range(NeighborTypes(f, cls))
    IN  IF neighbor_types # {}
        THEN IF "internal" \in neighbor_types THEN "internal"
             ELSE IF "through" \in neighbor_types THEN "through"
             ELSE "external"
        ELSE IF cls[f] = NONE
             THEN (IF face_data[f].surf_type = GeomAbs_Plane THEN "planar" ELSE "external")
             ELSE cls[f]

\* "if face_idx in locked_faces: continue", with the test left out
SkippedNever(f) == FALSE
\* "if face_idx in locked_faces: continue"
Skipped(f) == f \in locked_faces

\* "changes_made = True", forgotten
FlagAfterUpdateMissing == changes_made
\* "changes_made = True" after a face was relabelled
FlagAfterUpdate == TRUE

\* the range of the outer loop never running out
RangeNeverExhausted(it) == FALSE
\* the outer "for iteration in range(max_iterations)" has no further value
RangeExhausted(it) == it = max_iterations - 1

\* all labelled neighbours of f carry one label
Unanimous(f, cls) == Cardinality(Range(NeighborTypes(f, cls))) = 1

\* one iteration of "for face_info in face_data" of the current pass
PropagateFace ==
    /\ pc = "propagate"
    /\ pos <= Len(face_data)
    /\ LET f == pos
           new_type == NewType(f, face_classifications)
       IN  IF Skipped(f)
           THEN UNCHANGED <<face_classifications, vertex_colors, changes_made, settled>>
           ELSE /\ settled' = IF Unanimous(f, face_classifications) /\ settled[f] = NONE
                              THEN [settled EXCEPT ![f] = new_type]
                              ELSE settled
                /\ IF face_classifications[f] # new_type
                   THEN /\ face_classifications' = [face_classifications EXCEPT ![f] = new_type]
                        /\ vertex_colors' =
                              [v \in DOMAIN vertex_colors |->
                                  IF v \in VertexRange(face_data[f]) THEN new_type
                                  ELSE vertex_colors[v]]
                        /\ changes_made' = FlagAfterUpdate
                   ELSE UNCHANGED <<face_classifications, vertex_colors, changes_made>>
    /\ pos' = pos + 1
    /\ UNCHANGED <<face_data, edge_face_map, locked_faces, iteration, pc>>
    /\ UNCHANGED <<edgeVars, featureVars, analyzeVars>>
    /\ UNCHANGED <<tessVars, meshVars>>

\* the end of a pass: converged, out of iterations, or on to the next pass
EndPass ==
    /\ pc = "propagate"
    /\ pos > Len(face_data)
    /\ IF ~changes_made \/ RangeExhausted(iteration)
       THEN /\ pc' = "done"
            /\ UNCHANGED <<iteration, pos, changes_made>>
       ELSE /\ iteration' = iteration + 1
            /\ pos' = 1
            /\ changes_made' = FALSE
            /\ pc' = "propagate"
    /\ UNCHANGED <<face_data, edge_face_map, face_classifications, locked_faces,
                   vertex_colors, settled>>
    /\ UNCHANGED <<edgeVars, featureVars, analyzeVars>>
    /\ UNCHANGED <<tessVars, meshVars>>

-----------------------------------------------------------------------------
(* The specification of classify_mesh_faces *)

EdgeIdle ==
    /\ edges = <<>>
    /\ max_edges = 0
    /\ cursor = 0
    /\ edge_count = 0
    /\ feature_edges = <<>>
    /\ stats = <<>>
    /\ epc = "idle"

FeatureIdle ==
    /\ shape = <<>>
    /\ fcursor = 0
    /\ features = <<>>
    /\ fpc = "idle"

AnalyzeIdle ==
    /\ apc = "idle"
    /\ response = [http |-> 0]
    /\ served = <<>>

TessIdle ==
    /\ triangulations = <<>>
    /\ face_idx = 0
    /\ current_index = 0
    /\ indices = <<>>
    /\ tpc = "idle"

MeshIdle ==
    /\ gmsh_lock = 0
    /\ gmsh_initialized = FALSE
    /\ mpc = <<>>
    /\ mresponse = <<>>

\* the mesh and the shape handed to classify_mesh_faces
Given(kinds, adj, base) ==
    /\ face_data = FaceData(kinds, base)
    /\ edge_face_map = EdgeMapOf(Len(kinds), adj)

Init ==
    /\ \E base \in {MaxVerts} :
          \* every shape of at most MaxFaces faces
          \/ \E n \in 1..MaxFaces : \E kinds \in [1..n -> FaceKinds] :
                \E adj \in SUBSET PairsOf(n) : Given(kinds, adj, base)
          \* strips of more than MaxFaces faces
          \/ \E n \in (MaxFaces + 1)..MaxChain : \E first \in ChainEndKinds :
                \E last \in ChainEndKinds : \E closure \in ChainClosures :
                   Given(ChainKinds(n, first, last), ChainAdj(n, closure), base)
          \* stars of more than MaxFaces faces
          \/ \E n \in MaxFaces..MaxLeaves : \E hub \in HubKinds :
                \E leaves \in [1..n -> FaceKinds] : \E rim \in BOOLEAN :
                   Given(StarKinds(n, hub, leaves), StarAdj(n, rim), base)
    /\ face_classifications = [f \in DOMAIN face_data |-> NONE]
    /\ locked_faces = {}
    /\ vertex_colors = [v \in 0..(VertexCount(face_data) - 1) |-> "external"]
    /\ iteration = 0
    /\ pos = 0
    /\ changes_made = FALSE
    /\ pc = "step1"
    /\ settled = [f \in DOMAIN face_data |-> NONE]
    /\ EdgeIdle
    /\ FeatureIdle
    /\ AnalyzeIdle
    /\ TessIdle
    /\ MeshIdle

Next ==
    \/ ClassifyCylinders
    \/ PropagateFace
    \/ EndPass

Spec == Init /\ [][Next]_vars

-----------------------------------------------------------------------------
(* Properties of classify_mesh_faces *)

Propagating == pc = "propagate" /\ pos <= Len(face_data)
Evaluating == Propagating /\ pos \notin locked_faces

\* how far the run has come: grows with every step
Progress ==
    IF pc = "step1" THEN 0
    ELSE IF pc = "propagate" THEN 1 + iteration * (Len(face_data) + 2) + pos
    ELSE 1 + (max_iterations + 1) * (Len(face_data) + 2)

\* the adjacency graph has a cycle (at least as many shared edges as faces)
CyclicGraph == Len(edge_face_map) >= Len(face_data)

\* C1: for every adjacency graph, cyclic ones included, and every step-1
\* labelling, propagation runs at most max_iterations (10) full passes: the
\* pass counter stays below 10, every step makes progress, a step is possible
\* until the function returns, and what it returns labels every vertex.
C1_PropagationTerminates ==
    /\ [](iteration < max_iterations)
    /\ [](pc = "done" \/ ENABLED Next)
    /\ [](pc = "done" => \A v \in DOMAIN vertex_colors : vertex_colors[v] \in Labels)
    /\ [][Progress' > Progress]_vars

\* C1 witness: a cyclic graph on which the tenth pass still changed a label,
\* so that the iteration bound is what ends the loop
C1_Witness ==
    /\ pc = "done"
    /\ iteration = max_iterations - 1
    /\ changes_made
    /\ CyclicGraph

\* C2: a cylindrical face locked in step 1 keeps its face label and the
\* labels of all its vertices through every step of propagation.
C2_LockedCylinderNeverRelabelled ==
    [][pc = "propagate" =>
         \A f \in DOMAIN face_data :
            (IsCylinder(f) /\ f \in locked_faces) =>
               /\ face_classifications'[f] = face_classifications[f]
               /\ \A v \in DOMAIN vertex_colors :
                     (/\ v >= face_data[f].start_vertex
                      /\ v < face_data[f].start_vertex + face_data[f].vertex_count)
                        => vertex_colors'[v] = vertex_colors[v]]_vars

\* C2 witness: propagation is over, and a locked cylinder still labelled
\* external touches an unlocked face that propagation made internal
C2_Witness ==
    /\ pc = "done"
    /\ \E f \in locked_faces : \E e \in EdgesOf(f) : \E g \in Range(edge_face_map[e]) :
          /\ IsCylinder(f)
          /\ face_classifications[f] = "external"
          /\ g \notin locked_faces
          /\ face_classifications[g] = "internal"

RECURSIVE PassFrom(_, _)
\* the labelling after the faces k, k+1, ... are evaluated once more, in place
PassFrom(k, cls) ==
    IF k > Len(face_data) THEN cls
    ELSE PassFrom(k + 1, IF k \in locked_faces THEN cls
                         ELSE [cls EXCEPT ![k] = NewType(k, cls)])

\* one more full pass would change no label
FixedPoint == PassFrom(1, face_classifications) = face_classifications

\* C3 as stated: whenever propagation returns, the labelling is a fixed point.
C3_FixedPointOnReturn == pc = "done" => FixedPoint

\* C3 amended: when propagation returns because a pass changed nothing, the
\* labelling is a fixed point (a return at the iteration bound may not be).
C3_FixedPointWhenConverged == (pc = "done" /\ ~changes_made) => FixedPoint

\* C3 witness: convergence after several passes, with a label propagated
C3_Witness ==
    /\ pc = "done"
    /\ ~changes_made
    /\ iteration >= 2
    /\ \E f \in DOMAIN face_data : f \notin locked_faces /\ face_classifications[f] = "internal"

\* number of entries of a sequence equal to x
Count(seq, x) == Cardinality({i \in DOMAIN seq : seq[i] = x})

\* the priority order inner > through > outer > planar
Prio(l) == CASE l = "internal" -> 4 [] l = "through" -> 3 [] l = "external" -> 2 [] OTHER -> 1

\* the most frequent label of a non-empty list, ties going to the higher priority
MajorityLabel(seq) ==
    CHOOSE l \in Range(seq) :
        \A m \in Range(seq) :
            \/ Count(seq, l) > Count(seq, m)
            \/ Count(seq, l) = Count(seq, m) /\ Prio(l) >= Prio(m)

\* the label of highest priority in a non-empty list
TopLabel(seq) == CHOOSE l \in Range(seq) : \A m \in Range(seq) : Prio(l) >= Prio(m)

\* C4 as stated: an unlocked face with labelled neighbours adopts the majority
\* label of its labelled neighbours, priority deciding among equally frequent labels.
C4_AdoptsMajorityLabel ==
    [][(Evaluating /\ NeighborTypes(pos, face_classifications) # <<>>) =>
          face_classifications'[pos] =
              MajorityLabel(NeighborTypes(pos, face_classifications))]_vars

\* C4 amended: an unlocked face with labelled neighbours adopts the label of
\* highest priority found among them, whatever the counts (internal, else
\* through, else external; a planar neighbour counts as external).
C4_AdoptsTopPriorityLabel ==
    [][(Evaluating /\ NeighborTypes(pos, face_classifications) # <<>>) =>
          LET top == TopLabel(NeighborTypes(pos, face_classifications))
          IN  face_classifications'[pos] = IF top = "planar" THEN "external" ELSE top]_vars

\* C4 witness: an evaluated unlocked face is internal with one internal
\* neighbour against two external ones
C4_Witness ==
    \E f \in DOMAIN face_data :
        /\ pc = "propagate"
        /\ f < pos
        /\ f \notin locked_faces
        /\ face_classifications[f] = "internal"
        /\ Count(NeighborTypes(f, face_classifications), "internal") = 1
        /\ Count(NeighborTypes(f, face_classifications), "external") = 2

\* C5 as stated: a face evaluated with unanimous neighbours keeps, in every
\* later pass, the label it took then.
C5_UnanimousFaceStaysPut ==
    \A f \in DOMAIN face_data : settled[f] # NONE => face_classifications[f] = settled[f]

\* C5 amended: an unlocked face whose labelled neighbours all carry one label
\* takes that label when it is evaluated (external when the label is planar);
\* propagation locks no face, so a later pass may relabel it.
C5_UnanimousFaceTakesLabel ==
    [][(Evaluating /\ Unanimous(pos, face_classifications)) =>
          LET common == CHOOSE l \in Range(NeighborTypes(pos, face_classifications)) : TRUE
          IN  /\ face_classifications'[pos] = IF common = "planar" THEN "external" ELSE common
              /\ locked_faces' = locked_faces
              /\ pos \notin locked_faces']_vars

\* C5 witness: a face that took the unanimous label of its neighbours carries
\* another label later
C5_Witness ==
    \E f \in DOMAIN face_data :
        /\ settled[f] # NONE
        /\ face_classifications[f] # settled[f]
        /\ f \notin locked_faces

\* the faces whose vertex range holds vertex v
OwnersOf(v) ==
    {f \in DOMAIN face_data :
        /\ v >= face_data[f].start_vertex
        /\ v < face_data[f].start_vertex + face_data[f].vertex_count}

\* C6: on return every vertex carries one of the four labels, lies in the
\* vertex range of exactly one face, and carries that face's final label.
C6_VertexLabelsMatchFaces ==
    pc = "done" =>
        /\ DOMAIN vertex_colors = 0..(VertexCount(face_data) - 1)
        /\ \A v \in DOMAIN vertex_colors :
              /\ vertex_colors[v] \in Labels
              /\ Cardinality(OwnersOf(v)) = 1
              /\ \A f \in OwnersOf(v) : vertex_colors[v] = face_classifications[f]

\* C6 witness: a returned mesh with external, through and planar vertices
C6_Witness ==
    /\ pc = "done"
    /\ {"external", "through", "planar"} \subseteq Range(vertex_colors)
    /\ \E f \in DOMAIN face_data : face_data[f].vertex_count >= 2

-----------------------------------------------------------------------------
(* get_face_normal_at_point and calculate_dihedral_angle *)

\* None, and a returned value
None == <<>>
Some(x) == <<x>>

\* d1u.Crossed(d1v) of a face at its UV midpoint: a direction around the edge,
\* in degrees, or a vector of magnitude under 1e-7
RawNormal(dir, rev) == [degenerate |-> FALSE, raw_dir |-> dir, reversed |-> rev]
DegenerateNormal == [degenerate |-> TRUE, raw_dir |-> 0, reversed |-> FALSE]

\* get_face_normal_at_point: None for a degenerate normal, else the unit
\* normal, reversed when the face orientation is TopAbs_REVERSED
get_face_normal_at_point(n) ==
    IF n.degenerate THEN None
    ELSE Some((n.raw_dir + (IF n.reversed THEN 180 ELSE 0)) % 360)

\* math.acos of the clamped dot product of two unit normals: the angle
\* between their directions, 0..180
AngleBetweenNormals(d1, d2) ==
    LET d == (d1 - d2) % 360
    IN  IF d > 180 THEN 360 - d ELSE d

\* calculate_dihedral_angle: abs(pi - angle between the normals), or None
calculate_dihedral_angle(edge) ==
    IF ~edge.has_curve THEN None
    ELSE LET normal1 == get_face_normal_at_point(edge.normal1)
             normal2 == get_face_normal_at_point(edge.normal2)
         IN  IF normal1 = None \/ normal2 = None THEN None
             ELSE LET dihedral_angle == 180 - AngleBetweenNormals(normal1[1], normal2[1])
                  IN  Some(IF dihedral_angle < 0 THEN -dihedral_angle ELSE dihedral_angle)

-----------------------------------------------------------------------------
(* extract_feature_edges *)

GeomAbs_Line == "Line"
GeomAbs_Circle == "Circle"
GeomAbs_BSplineCurve == "BSplineCurve"
GeomAbs_OtherCurve == "OtherCurve"

\* the comparison with the threshold, turned round
ExceedsThresholdInverted(dihedral_angle) == dihedral_angle < angle_threshold_degrees
\* dihedral_angle > angle_threshold_rad
ExceedsThreshold(dihedral_angle) == dihedral_angle > angle_threshold_degrees

\* is_significant, with the one-face branch testing for no face at all
IsSignificantNoBoundary(edge) ==
    IF edge.in_map
    THEN IF edge.num_adjacent_faces = 0 THEN TRUE
         ELSE IF edge.num_adjacent_faces = 2
         THEN LET dihedral_angle == calculate_dihedral_angle(edge)
              IN  dihedral_angle # None /\ ExceedsThreshold(dihedral_angle[1])
         ELSE FALSE
    ELSE TRUE

\* is_significant of an edge that has a curve
IsSignificant(edge) ==
    IF edge.in_map
    THEN IF edge.num_adjacent_faces = 1 THEN TRUE
         ELSE IF edge.num_adjacent_faces = 2
         THEN LET dihedral_angle == calculate_dihedral_angle(edge)
              IN  dihedral_angle # None /\ ExceedsThreshold(dihedral_angle[1])
         ELSE FALSE
    ELSE TRUE

\* num_samples by curve type
NumSamples(curve_type) ==
    IF curve_type = GeomAbs_Line THEN 2
    ELSE IF curve_type = GeomAbs_Circle THEN 32
    ELSE IF curve_type = GeomAbs_BSplineCurve THEN 24
    ELSE 20

\* the polyline sampled from the edge visited at position i
Polyline(i, edge) == [edge |-> i, points |-> NumSamples(edge.curve_type) + 1]

\* stats after the significance test of an edge that has a curve
StatsAfter(st, edge) ==
    IF edge.in_map /\ edge.num_adjacent_faces = 1
    THEN [st EXCEPT !.boundary_edges = @ + 1]
    ELSE IF edge.in_map /\ edge.num_adjacent_faces = 2
    THEN IF IsSignificant(edge)
         THEN [st EXCEPT !.sharp_edges = @ + 1]
         ELSE [st EXCEPT !.smooth_edges_skipped = @ + 1]
    ELSE st

\* one iteration of "while edge_explorer.More() and edge_count < max_edges"
ProcessEdge ==
    /\ epc = "scan"
    /\ cursor <= Len(edges)
    /\ edge_count < max_edges
    /\ LET edge == edges[cursor]
           counted == [stats EXCEPT !.total_processed = @ + 1]
       IN  IF edge.cast_raises
           THEN \* an error outside the per-edge try: "return []"
                /\ feature_edges' = <<>>
                /\ epc' = "returned"
                /\ UNCHANGED <<cursor, edge_count, stats>>
           ELSE /\ epc' = epc
                /\ cursor' = cursor + 1
                /\ IF ~edge.has_curve
                   THEN /\ stats' = counted
                        /\ UNCHANGED <<feature_edges, edge_count>>
                   ELSE /\ stats' = StatsAfter(counted, edge)
                        /\ IF IsSignificant(edge) /\ ~edge.sample_raises
                           THEN /\ feature_edges' = Append(feature_edges, Polyline(cursor, edge))
                                /\ edge_count' = edge_count + 1
                           ELSE UNCHANGED <<feature_edges, edge_count>>
    /\ UNCHANGED <<edges, max_edges>>
    /\ UNCHANGED <<classifyVars, featureVars, analyzeVars>>
    /\ UNCHANGED <<tessVars, meshVars>>

\* the loop ends: "return feature_edges"
ReturnEdges ==
    /\ epc = "scan"
    /\ (cursor > Len(edges) \/ edge_count >= max_edges)
    /\ epc' = "returned"
    /\ UNCHANGED <<edges, max_edges, cursor, edge_count, feature_edges, stats>>
    /\ UNCHANGED <<classifyVars, featureVars, analyzeVars>>
    /\ UNCHANGED <<tessVars, meshVars>>

-----------------------------------------------------------------------------
(* Shapes given to extract_feature_edges *)

BoundaryLine ==
    [cast_raises |-> FALSE, has_curve |-> TRUE, in_map |-> TRUE, num_adjacent_faces |-> 1,
     normal1 |-> RawNormal(0, FALSE), normal2 |-> RawNormal(0, FALSE),
     curve_type |-> GeomAbs_Line, sample_raises |-> FALSE]

\* the pairs of face normals of the two-face edges
NormalPairs ==
    { <<RawNormal(0, FALSE), RawNormal(d, FALSE)>> : d \in {0, 4, 90, 159, 160, 161, 180} }
      \cup { <<RawNormal(0, FALSE), RawNormal(184, TRUE)>>,
             <<RawNormal(0, TRUE), RawNormal(90, FALSE)>>,
             <<RawNormal(0, FALSE), RawNormal(0, TRUE)>>,
             <<DegenerateNormal, RawNormal(90, FALSE)>>,
             <<RawNormal(0, FALSE), DegenerateNormal>> }

EdgeCases ==
    { [BoundaryLine EXCEPT !.curve_type = t]
        : t \in {GeomAbs_Line, GeomAbs_Circle, GeomAbs_BSplineCurve, GeomAbs_OtherCurve} }
      \cup { [BoundaryLine EXCEPT !.has_curve = FALSE],
             [BoundaryLine EXCEPT !.sample_raises = TRUE],
             [BoundaryLine EXCEPT !.cast_raises = TRUE],
             [BoundaryLine EXCEPT !.in_map = FALSE, !.num_adjacent_faces = 0],
             [BoundaryLine EXCEPT !.num_adjacent_faces = 3] }
      \cup { [BoundaryLine EXCEPT !.num_adjacent_faces = 2, !.normal1 = p[1], !.normal2 = p[2]]
               : p \in NormalPairs }

\* one boundary edge more than the default budget
BulkEdgeList == [i \in 1..(DefaultMaxEdges + 1) |-> BoundaryLine]

ClassifyIdle ==
    /\ face_data = <<>>
    /\ edge_face_map = <<>>
    /\ face_classifications = <<>>
    /\ locked_faces = {}
    /\ vertex_colors = <<>>
    /\ iteration = 0
    /\ pos = 0
    /\ changes_made = FALSE
    /\ pc = "idle"
    /\ settled = <<>>

EdgeInit ==
    /\ \/ /\ \E n \in 1..MaxEdgeSeq : edges \in [1..n -> EdgeCases]
          /\ max_edges \in (1..MaxBudget) \cup {DefaultMaxEdges}
       \/ /\ edges = BulkEdgeList
          /\ max_edges = DefaultMaxEdges
    /\ cursor = 1
    /\ edge_count = 0
    /\ feature_edges = <<>>
    /\ stats = [boundary_edges |-> 0, sharp_edges |-> 0, smooth_edges_skipped |-> 0,
                total_processed |-> 0]
    /\ epc = "scan"
    /\ ClassifyIdle
    /\ FeatureIdle
    /\ AnalyzeIdle
    /\ TessIdle
    /\ MeshIdle

EdgeNext ==
    \/ ProcessEdge
    \/ ReturnEdges

EdgeSpec == EdgeInit /\ [][EdgeNext]_vars

-----------------------------------------------------------------------------
(* Properties of extract_feature_edges *)

\* the edge visited at position i is in the returned polylines
Kept(i) == \E k \in DOMAIN feature_edges : feature_edges[k].edge = i

\* an edge with exactly one adjacent face
IsBoundary(edge) == edge.in_map /\ edge.num_adjacent_faces = 1
\* an edge shared by two faces
IsShared(edge) == edge.in_map /\ edge.num_adjacent_faces = 2

\* both face normals of the edge are available
NormalsAvailable(edge) ==
    /\ get_face_normal_at_point(edge.normal1) # None
    /\ get_face_normal_at_point(edge.normal2) # None

\* the angle between the two face normals of the edge, in degrees
NormalAngle(edge) ==
    AngleBetweenNormals(get_face_normal_at_point(edge.normal1)[1],
                        get_face_normal_at_point(edge.normal2)[1])

\* no error is raised outside the per-edge try
ScanUnbroken == \A i \in DOMAIN edges : ~edges[i].cast_raises

C8_TangentEdgeDropped ==
    epc = "returned" =>
        \A i \in DOMAIN edges :
            (/\ IsShared(edges[i])
             /\ NormalsAvailable(edges[i])
             /\ NormalAngle(edges[i]) < 5) => ~Kept(i)

\* C9: an edge shared by two faces whose normals are 90 degrees apart is
\* marked significant (and counted as sharp) by the two-face branch, and
\* its polyline is appended when its sampling raises nothing.
C9_RightAngleEdgeSignificant ==
    [][(/\ epc = "scan"
        /\ cursor' = cursor + 1
        /\ edges[cursor].has_curve
        /\ IsShared(edges[cursor])
        /\ NormalsAvailable(edges[cursor])
        /\ NormalAngle(edges[cursor]) = 90) =>
           /\ stats'.sharp_edges = stats.sharp_edges + 1
           /\ stats'.smooth_edges_skipped = stats.smooth_edges_skipped
           /\ ~edges[cursor].sample_raises =>
                 /\ Len(feature_edges') = Len(feature_edges) + 1
                 /\ feature_edges'[Len(feature_edges')].edge = cursor]_vars

\* C9 witness: a returned polyline comes from a two-face edge whose normals
\* are 90 degrees apart, one of them on a reversed face
C9_Witness ==
    /\ epc = "returned"
    /\ stats.sharp_edges >= 1
    /\ \E i \in DOMAIN edges :
          /\ Kept(i)
          /\ IsShared(edges[i])
          /\ edges[i].normal1.reversed
          /\ NormalsAvailable(edges[i])
          /\ NormalAngle(edges[i]) = 90

\* C10: a two-face edge whose dihedral angle cannot be computed is treated
\* as significant and kept (stated for edges that have a curve and sample
\* cleanly, in a scan that neither breaks off nor uses up its budget).
C10_FailedAngleEdgeKept ==
    (epc = "returned" /\ ScanUnbroken /\ Len(feature_edges) < max_edges) =>
        \A i \in DOMAIN edges :
            (/\ IsShared(edges[i])
             /\ edges[i].has_curve
             /\ ~edges[i].sample_raises
             /\ calculate_dihedral_angle(edges[i]) = None) => Kept(i)

-----------------------------------------------------------------------------
(* recognize_manufacturing_features *)

GeomAbs_Torus == "Torus"

\* faces of a shape given to recognize_manufacturing_features
MaxShapeFaces == 2

\* the square of the distance of two points; the code compares the square
\* roots, which are ordered the same way
Dist2(p, q) ==
    (p[1] - q[1]) * (p[1] - q[1]) + (p[2] - q[2]) * (p[2] - q[2])
        + (p[3] - q[3]) * (p[3] - q[3])

Max3(a, b, c) == IF a >= b /\ a >= c THEN a ELSE IF b >= c THEN b ELSE c

\* bbox_center and bbox_size of the box (xmin, ymin, zmin, xmax, ymax, zmax)
bbox_center(box) ==
    <<(box[1] + box[4]) \div 2, (box[2] + box[5]) \div 2, (box[3] + box[6]) \div 2>>
bbox_size(box) == Max3(box[4] - box[1], box[5] - box[2], box[6] - box[3])

\* is_internal = dist_to_axis < bbox_to_axis, both distances taken to the
\* point cyl.Axis().Location()
is_internal(face, box) ==
    Dist2(face.center, face.axis_point) < Dist2(bbox_center(box), face.axis_point)

\* adj_dist > adj_bbox_dist for a cylindrical neighbour ("except: pass")
AdjIsExternal(face, box) ==
    /\ ~face.raises
    /\ Dist2(face.center, face.axis_point) > Dist2(bbox_center(box), face.axis_point)

\* has_external_connection: some edge of face f is shared with an outer
\* cylindrical face or with a planar face
has_external_connection(f, sh) ==
    \E e \in DOMAIN sh.edge_face_map :
        /\ f \in Range(sh.edge_face_map[e])
        /\ \E g \in Range(sh.edge_face_map[e]) :
              /\ g # f
              /\ \/ /\ sh.faces[g].surf_type = GeomAbs_Cylinder
                    /\ AdjIsExternal(sh.faces[g], sh.box)
                 \/ sh.faces[g].surf_type = GeomAbs_Plane

\* diameter_ratio < 0.15 with the bound taken inclusively
RatioBelowInclusive(diameter, size, percent) == diameter * 100 <= percent * size
\* diameter_ratio < percent / 100, where diameter_ratio = (radius * 2) / bbox_size
RatioBelow(diameter, size, percent) == diameter * 100 < percent * size

\* the list of the features dict a cylindrical face is appended to, NONE for no list
CylinderCategory(f, sh) ==
    LET face == sh.faces[f]
        size == bbox_size(sh.box)
    IN  IF is_internal(face, sh.box)
        THEN IF RatioBelow(face.diameter, size, 15)
             THEN IF has_external_connection(f, sh) THEN "through_holes" ELSE "blind_holes"
             ELSE IF RatioBelow(face.diameter, size, 50) THEN "bores"
             ELSE NONE
        ELSE IF RatioBelow(face.diameter, size, 30) THEN "bosses"
             ELSE NONE

\* the list of the features dict a face is appended to
Category(f, sh) ==
    LET t == sh.faces[f].surf_type
    IN  IF t = GeomAbs_Cylinder THEN CylinderCategory(f, sh)
        ELSE IF t = GeomAbs_Plane THEN "planar_faces"
        ELSE IF t = GeomAbs_Torus THEN "fillets"
        ELSE "complex_surfaces"

\* feature_data of a face (face is the position of the face in all_faces)
FeatureData(f, face) ==
    [face |-> f, diameter |-> face.diameter, position |-> face.axis_point]

\* the entry of a planar, toroidal or other face
SurfaceData(f) == [face |-> f]

\* the features dict kept from one call to the next instead of created anew
LeftoverFeatures ==
    IF fpc = "idle"
    THEN [through_holes |-> <<>>, blind_holes |-> <<>>, bores |-> <<>>, bosses |-> <<>>,
          pockets |-> <<>>, planar_faces |-> <<>>, fillets |-> <<>>, complex_surfaces |-> <<>>]
    ELSE features

\* the features dict before the first face
NoFeatures ==
    [through_holes |-> <<>>, blind_holes |-> <<>>, bores |-> <<>>, bosses |-> <<>>,
     pockets |-> <<>>, planar_faces |-> <<>>, fillets |-> <<>>, complex_surfaces |-> <<>>]

\* surface.Cylinder() of a degenerate face raises; nothing catches it here
CylinderRaises(face) == face.raises
\* (radius * 2) / bbox_size raises ZeroDivisionError
DivisionRaises(box) == bbox_size(box) = 0

\* one iteration of "for face in all_faces"
AnalyzeFace ==
    /\ fpc = "scan"
    /\ fcursor <= Len(shape.faces)
    /\ LET face == shape.faces[fcursor]
       IN  IF /\ face.surf_type = GeomAbs_Cylinder
              /\ (CylinderRaises(face) \/ DivisionRaises(shape.box))
           THEN /\ fpc' = "raised"
                /\ UNCHANGED <<fcursor, features>>
           ELSE /\ features' =
                      LET c == Category(fcursor, shape)
                      IN  IF c = NONE THEN features
                          ELSE [features EXCEPT ![c] =
                                   Append(@, IF face.surf_type = GeomAbs_Cylinder
                                             THEN FeatureData(fcursor, face)
                                             ELSE SurfaceData(fcursor))]
                /\ fcursor' = fcursor + 1
                /\ fpc' = fpc
    /\ UNCHANGED shape
    /\ UNCHANGED <<classifyVars, edgeVars, analyzeVars>>
    /\ UNCHANGED <<tessVars, meshVars>>

\* the legacy fields and "return features"
WithLegacyFields(feats) ==
    [k \in DOMAIN feats \cup {"holes", "cylindrical_bosses"} |->
        IF k = "holes" THEN feats.through_holes \o feats.blind_holes
        ELSE IF k = "cylindrical_bosses" THEN feats.bosses
        ELSE feats[k]]

ReturnFeatures ==
    /\ fpc = "scan"
    /\ fcursor > Len(shape.faces)
    /\ features' = WithLegacyFields(features)
    /\ fpc' = "returned"
    /\ UNCHANGED <<shape, fcursor>>
    /\ UNCHANGED <<classifyVars, edgeVars, analyzeVars>>
    /\ UNCHANGED <<tessVars, meshVars>>

-----------------------------------------------------------------------------
(* Shapes given to recognize_manufacturing_features *)

\* the bounding box of a 100 x 100 x 20 plate, and of a solid shrunk to a point
PlateBox == <<0, 0, 0, 100, 100, 20>>
ZeroBox == <<0, 0, 0, 0, 0, 0>>

\* a face as the kernel reports it: surface type, (radius * 2), the point
\* cyl.Axis().Location(), the centre of mass of the face, and whether
\* surface.Cylinder() raises
Cylinder(diameter, axis_point, center) ==
    [surf_type |-> GeomAbs_Cylinder, diameter |-> diameter, axis_point |-> axis_point,
     center |-> center, raises |-> FALSE]
Surface(surf_type, center) ==
    [surf_type |-> surf_type, diameter |-> 0, axis_point |-> center,
     center |-> center, raises |-> FALSE]

\* diameters around 15, 30 and 50 percent of the plate's bbox_size
Diameters == {10, 14, 15, 16, 29, 30, 31, 49, 50, 51}

\* a cylinder drilled off the centre of the plate: its centre of mass is
\* nearer to the axis location than the centre of the box is
OffCentre(d) == Cylinder(d, <<20, 50, 0>>, <<20, 50, 10>>)
\* one half of a cylinder about the vertical through the centre of the box:
\* its centre of mass lies off the axis (by about diameter / pi)
HalfCentred(d) == Cylinder(d, <<50, 50, 0>>, <<50 + (d \div 3), 50, 10>>)
\* a whole cylinder about the vertical through the centre of the box: its
\* centre of mass is the centre of the box
WholeCentred(d) == Cylinder(d, <<50, 50, 0>>, <<50, 50, 10>>)

FeatureFaceCases ==
    { OffCentre(d) : d \in Diameters } \cup { HalfCentred(d) : d \in Diameters }
      \cup { WholeCentred(10),
             [OffCentre(10) EXCEPT !.raises = TRUE],
             Surface(GeomAbs_Plane, <<50, 50, 20>>),
             Surface(GeomAbs_Torus, <<50, 50, 20>>),
             Surface(GeomAbs_Other, <<50, 50, 20>>) }

\* the faces of a solid whose bounding box has zero size
DegenerateFaceCases ==
    { Cylinder(0, <<0, 0, 0>>, <<0, 0, 0>>), Surface(GeomAbs_Plane, <<0, 0, 0>>) }

\* the edge of the shape for each entry of the edge map: two faces at a right angle
ShapeEdges(efm) ==
    [e \in DOMAIN efm |->
        [BoundaryLine EXCEPT !.num_adjacent_faces = 2, !.normal2 = RawNormal(90, FALSE)]]

AShape(faces, box, adj, name) ==
    [faces |-> faces, box |-> box, edge_face_map |-> EdgeMapOf(Len(faces), adj),
     edges |-> ShapeEdges(EdgeMapOf(Len(faces), adj)), name |-> name,
     upload |-> "step", tess_raises |-> FALSE]

\* the 100 x 100 x 20 plate with a hole of diameter 10 through its centre:
\* the hole (one face, or two half faces), then the top, the bottom and the
\* four sides
PlateSides ==
    << Surface(GeomAbs_Plane, <<50, 50, 20>>), Surface(GeomAbs_Plane, <<50, 50, 0>>),
       Surface(GeomAbs_Plane, <<0, 50, 10>>), Surface(GeomAbs_Plane, <<100, 50, 10>>),
       Surface(GeomAbs_Plane, <<50, 0, 10>>), Surface(GeomAbs_Plane, <<50, 100, 10>>) >>
PlateWithHole(halves) ==
    LET hole == IF halves
                THEN << HalfCentred(10),
                        [HalfCentred(10) EXCEPT !.center = <<50 - (10 \div 3), 50, 10>>] >>
                ELSE << WholeCentred(10) >>
        h == Len(hole)
        top == h + 1
        bottom == h + 2
        rim == {{i, top} : i \in 1..h} \cup {{i, bottom} : i \in 1..h}
                 \cup (IF halves THEN {{1, 2}} ELSE {})
        box == {{t, s} : t \in {top, bottom}, s \in (h + 3)..(h + 6)}
                 \cup {{h + 3, h + 5}, {h + 3, h + 6}, {h + 4, h + 5}, {h + 4, h + 6}}
    IN  AShape(hole \o PlateSides, PlateBox, rim \cup box, "plate")

\* recognize_manufacturing_features is entered with this shape
FeaturesStarted(sh) ==
    /\ shape = sh
    /\ fcursor = 1
    /\ features = NoFeatures
    /\ fpc = "scan"

FeatureInit ==
    /\ \/ \E n \in 1..MaxShapeFaces : \E faces \in [1..n -> FeatureFaceCases] :
             \E adj \in SUBSET PairsOf(n) :
                FeaturesStarted(AShape(faces, PlateBox, adj, "solid"))
       \/ \E n \in 1..MaxShapeFaces : \E faces \in [1..n -> DegenerateFaceCases] :
             \E adj \in SUBSET PairsOf(n) :
                FeaturesStarted(AShape(faces, ZeroBox, adj, "degenerate"))
       \/ \E halves \in BOOLEAN : FeaturesStarted(PlateWithHole(halves))
    /\ ClassifyIdle
    /\ EdgeIdle
    /\ AnalyzeIdle
    /\ TessIdle
    /\ MeshIdle

FeatureNext ==
    \/ AnalyzeFace
    \/ ReturnFeatures

FeatureSpec == FeatureInit /\ [][FeatureNext]_vars

-----------------------------------------------------------------------------
(* analyze_cad *)

\* a quantity the kernel computes from the exact geometry (volume, area,
\* coordinates, the bounding box extents): its value is not modelled
Kernel == "kernel"

\* the face of tessellate_shape's face_data for a face of the shape; the
\* centre of the triangulation is taken to be the centre of mass of the face
KindOf(face, box) ==
    LET d == Dist2(face.center, face.axis_point)
        b == Dist2(bbox_center(box), face.axis_point)
        cyl == face.surf_type = GeomAbs_Cylinder
    IN  [surf_type |-> IF face.surf_type \in {GeomAbs_Plane, GeomAbs_Cylinder}
                       THEN face.surf_type ELSE GeomAbs_Other,
         raises |-> cyl /\ face.raises,
         axis_cmp |-> IF ~cyl \/ face.raises THEN 0
                      ELSE IF d < b THEN -1 ELSE IF d > b THEN 1 ELSE 0,
         \* radius < bbox_size * 0.15
         is_small_hole |-> cyl /\ ~face.raises /\ face.diameter * 100 < 30 * bbox_size(box)]

\* what a request leaves behind for its caller: the response and, for a
\* completed analysis, the face labels classify_mesh_faces computed
Result(resp, labels) == [response |-> resp, face_labels |-> labels]

\* the statements of analyze_cad before the shape is analysed
ReadStepFile ==
    /\ apc = "read"
    /\ IF shape.upload = "none"
       THEN /\ response' = [http |-> 400, body |-> [error |-> "No file uploaded"]]
            /\ served' = Append(served, Result(response', <<>>))
            /\ apc' = "done"
            /\ UNCHANGED <<fcursor, features, fpc>>
       ELSE IF shape.upload = "not_step"
       THEN /\ response' = [http |-> 400, body |-> [error |-> "Only .step or .stp files supported"]]
            /\ served' = Append(served, Result(response', <<>>))
            /\ apc' = "done"
            /\ UNCHANGED <<fcursor, features, fpc>>
       ELSE IF shape.upload = "unreadable"
       THEN /\ response' = [http |-> 400, body |-> [error |-> "Failed to read STEP file"]]
            /\ served' = Append(served, Result(response', <<>>))
            /\ apc' = "done"
            /\ UNCHANGED <<fcursor, features, fpc>>
       ELSE \* recognize_manufacturing_features(shape) is entered
            /\ fcursor' = 1
            /\ features' = NoFeatures
            /\ fpc' = "scan"
            /\ apc' = "features"
            /\ UNCHANGED <<response, served>>
    /\ UNCHANGED shape
    /\ UNCHANGED <<classifyVars, edgeVars>>
    /\ UNCHANGED <<tessVars, meshVars>>

\* "except Exception as e" of analyze_cad
HandleException ==
    /\ apc = "features"
    /\ fpc = "raised"
    /\ response' = [http |-> 500, body |-> [error |-> "str(e)", traceback |-> "None"]]
    /\ served' = Append(served, Result(response', <<>>))
    /\ apc' = "done"
    /\ UNCHANGED featureVars
    /\ UNCHANGED <<classifyVars, edgeVars>>
    /\ UNCHANGED <<tessVars, meshVars>>

\* mesh_data = tessellate_shape(shape); classify_mesh_faces(mesh_data, shape) is entered
TessellateShape ==
    /\ apc = "features"
    /\ fpc = "returned"
    /\ LET kinds == [f \in DOMAIN shape.faces |-> KindOf(shape.faces[f], shape.box)]
       IN  IF shape.tess_raises
           THEN \* "except Exception": the empty mesh
                /\ face_data' = <<>>
                /\ edge_face_map' = <<>>
           ELSE /\ face_data' = FaceData(kinds, MaxVerts)
                /\ edge_face_map' = shape.edge_face_map
    /\ face_classifications' = [f \in DOMAIN face_data' |-> NONE]
    /\ locked_faces' = {}
    /\ vertex_colors' = [v \in 0..(VertexCount(face_data') - 1) |-> "external"]
    /\ iteration' = 0
    /\ pos' = 0
    /\ changes_made' = FALSE
    /\ pc' = "step1"
    /\ settled' = [f \in DOMAIN face_data' |-> NONE]
    /\ apc' = "classify"
    /\ UNCHANGED <<response, served>>
    /\ UNCHANGED <<featureVars, edgeVars>>
    /\ UNCHANGED <<tessVars, meshVars>>

\* extract_feature_edges(shape, max_edges=500, angle_threshold_degrees=20) is entered
ExtractStart ==
    /\ apc = "classify"
    /\ pc = "done"
    /\ edges' = shape.edges
    /\ max_edges' = DefaultMaxEdges
    /\ cursor' = 1
    /\ edge_count' = 0
    /\ feature_edges' = <<>>
    /\ stats' = [boundary_edges |-> 0, sharp_edges |-> 0, smooth_edges_skipped |-> 0,
                 total_processed |-> 0]
    /\ epc' = "scan"
    /\ apc' = "edges"
    /\ UNCHANGED <<response, served>>
    /\ UNCHANGED <<classifyVars, featureVars>>
    /\ UNCHANGED <<tessVars, meshVars>>

\* min(10, int(...)) of the feature counts, in tenths
ComplexityScore(feats) ==
    LET th == Len(feats.through_holes)
        bl == Len(feats.blind_holes)
        bo == Len(feats.bores)
        bs == Len(feats.bosses)
        fi == Len(feats.fillets)
        tenths == 2 * (th + bl + bo + bs + fi) + 5 * th + 3 * bl + 2 * bo + 4 * bs + fi
    IN  IF tenths \div 10 > 10 THEN 10 ELSE tenths \div 10

\* the 'mesh_data' entry of the response
MeshDataEntry(fd, colors, fedges) ==
    [vertices |-> VertexCount(fd),
     indices |-> Kernel,
     normals |-> Kernel,
     vertex_colors |-> colors,
     feature_edges |-> fedges,
     triangle_count |-> Kernel,
     face_classification_method |-> "mesh_based_with_propagation",
     edge_extraction_method |-> "smart_filtering_20deg"]

\* the body of the response of a completed analysis
SuccessBody(feats, fd, colors, fedges) ==
    LET through_holes == Len(feats.through_holes)
        blind_holes == Len(feats.blind_holes)
        total_features == through_holes + blind_holes + Len(feats.bores)
                             + Len(feats.bosses) + Len(feats.fillets)
    IN  [exact_volume |-> Kernel,
         exact_surface_area |-> Kernel,
         center_of_mass |-> Kernel,
         manufacturing_features |-> feats,
         feature_summary |->
             [through_holes |-> through_holes,
              blind_holes |-> blind_holes,
              bores |-> Len(feats.bores),
              bosses |-> Len(feats.bosses),
              total_holes |-> through_holes + blind_holes,
              planar_faces |-> Len(feats.planar_faces),
              fillets |-> Len(feats.fillets),
              complexity_score |-> ComplexityScore(feats)],
         mesh_data |-> MeshDataEntry(fd, colors, fedges),
         volume_cm3 |-> Kernel,
         surface_area_cm2 |-> Kernel,
         is_cylindrical |-> Len(feats.holes) > 0 \/ Len(feats.bosses) > 0,
         has_flat_surfaces |-> Len(feats.planar_faces) > 0,
         complexity_score |-> ComplexityScore(feats),
         part_width_cm |-> Kernel,
         part_height_cm |-> Kernel,
         part_depth_cm |-> Kernel,
         total_faces |-> total_features,
         planar_faces |-> Len(feats.planar_faces),
         cylindrical_faces |-> Len(feats.holes) + Len(feats.bosses),
         analysis_type |-> "dual_representation",
         quotation_ready |-> TRUE,
         status |-> "success",
         confidence |-> "0.98",
         method |-> "professional_edge_extraction_with_angle_filtering"]

\* "return jsonify({...})" of a completed analysis
Respond ==
    /\ apc = "edges"
    /\ epc = "returned"
    /\ response' = [http |-> 200,
                    body |-> SuccessBody(features, face_data, vertex_colors, feature_edges)]
    /\ served' = Append(served, Result(response', face_classifications))
    /\ apc' = "done"
    /\ UNCHANGED <<classifyVars, edgeVars, featureVars>>
    /\ UNCHANGED <<tessVars, meshVars>>

-----------------------------------------------------------------------------
(* Requests given to analyze_cad *)

\* the faces of the small solids uploaded
UploadFaceCases ==
    { OffCentre(10), OffCentre(16), OffCentre(30), HalfCentred(10),
      [OffCentre(10) EXCEPT !.raises = TRUE],
      Surface(GeomAbs_Plane, <<50, 50, 20>>),
      Surface(GeomAbs_Torus, <<50, 50, 20>>) }

\* a solid with one boundary edge more than the budget of 500
BulkShape ==
    [AShape(<<Surface(GeomAbs_Plane, <<50, 50, 20>>)>>, PlateBox, {}, "bulk")
        EXCEPT !.edges = BulkEdgeList]

\* the request: the upload ("none", "not_step", "unreadable" or "step") and,
\* for a STEP file that reads, its solid and whether tessellation raises
Uploaded(sh) ==
    /\ \/ \E upload \in {"none", "not_step", "unreadable"} :
             shape = [sh EXCEPT !.upload = upload]
       \/ \E tess_raises \in BOOLEAN :
             shape = [sh EXCEPT !.tess_raises = tess_raises]

AnalyzeInit ==
    /\ \/ \E n \in 1..MaxShapeFaces : \E faces \in [1..n -> UploadFaceCases] :
             \E adj \in SUBSET PairsOf(n) : Uploaded(AShape(faces, PlateBox, adj, "solid"))
       \/ \E n \in 1..MaxShapeFaces : \E faces \in [1..n -> DegenerateFaceCases] :
             \E adj \in SUBSET PairsOf(n) : Uploaded(AShape(faces, ZeroBox, adj, "degenerate"))
       \/ \E halves \in BOOLEAN : Uploaded(PlateWithHole(halves))
       \/ Uploaded(BulkShape)
    /\ fcursor = 0
    /\ features = <<>>
    /\ fpc = "idle"
    /\ apc = "read"
    /\ response = [http |-> 0]
    /\ served = <<>>
    /\ ClassifyIdle
    /\ EdgeIdle
    /\ TessIdle
    /\ MeshIdle

AnalyzeNext ==
    \/ ReadStepFile
    \/ AnalyzeFace
    \/ ReturnFeatures
    \/ HandleException
    \/ TessellateShape
    \/ ClassifyCylinders
    \/ PropagateFace
    \/ EndPass
    \/ ExtractStart
    \/ ProcessEdge
    \/ ReturnEdges
    \/ Respond

AnalyzeSpec == AnalyzeInit /\ [][AnalyzeNext]_vars

-----------------------------------------------------------------------------
(* Properties of recognize_manufacturing_features and analyze_cad *)

\* the scan of extract_feature_edges stopped at its budget with edges unvisited
BudgetExhausted == edge_count >= max_edges /\ cursor <= Len(edges)

\* a dict carries the entry truncated: true
FlaggedTruncated(dict) == "truncated" \in DOMAIN dict /\ dict.truncated = TRUE

\* C11: when the edge scan stops because max_edges (500) polylines were
\* collected while edges remain unvisited, the response returned to the
\* caller carries truncated: true.
C11_TruncationFlagged ==
    (apc = "done" /\ response.http = 200 /\ BudgetExhausted) =>
        \/ FlaggedTruncated(response.body)
        \/ FlaggedTruncated(response.body.mesh_data)

\* the lists of the features dict in which face f has an entry
ListsOf(f) ==
    {k \in DOMAIN NoFeatures : \E i \in DOMAIN features[k] : features[k][i].face = f}

\* the number of entries of face f in list k
Entries(f, k) == Cardinality({i \in DOMAIN features[k] : features[k][i].face = f})

\* C12: for a solid whose bounding box has zero size,
\* recognize_manufacturing_features completes without a division by zero and
\* lists no cylindrical face as hole, bore or boss.
C12_ZeroBoxShortCircuits ==
    (fpc # "idle" /\ bbox_size(shape.box) = 0) =>
        /\ fpc # "raised"
        /\ \A f \in DOMAIN shape.faces :
              ListsOf(f) \cap {"through_holes", "blind_holes", "bores", "bosses"} = {}

\* C13: for the 100 x 100 x 20 plate with one hole of diameter 10 through
\* its centre, recognize_manufacturing_features returns exactly one through
\* hole, of diameter 10, and no boss, bore or blind hole.
C13_PlateHoleIsOneThroughHole ==
    (fpc = "returned" /\ shape.name = "plate") =>
        /\ Len(features.through_holes) = 1
        /\ features.through_holes[1].diameter = 10
        /\ features.bosses = <<>>
        /\ features.bores = <<>>
        /\ features.blind_holes = <<>>

\* a straight drilled hole: a small internal cylindrical face, each of whose
\* edges is shared with planar faces only
DrilledHole(f) ==
    LET face == shape.faces[f]
    IN  /\ face.surf_type = GeomAbs_Cylinder
        /\ ~face.raises
        /\ is_internal(face, shape.box)
        /\ RatioBelow(face.diameter, bbox_size(shape.box), 15)
        /\ \E e \in DOMAIN shape.edge_face_map : f \in Range(shape.edge_face_map[e])
        /\ \A e \in DOMAIN shape.edge_face_map :
              f \in Range(shape.edge_face_map[e]) =>
                 \A g \in Range(shape.edge_face_map[e]) :
                    g # f => shape.faces[g].surf_type = GeomAbs_Plane

\* C14: a straight drilled hole through a plate is a through hole in the
\* feature list and carries the mesh label through, in whatever order the
\* faces are enumerated.
C14_DrilledHoleIsThrough ==
    (apc = "done" /\ response.http = 200 /\ ~shape.tess_raises) =>
        \A f \in DOMAIN shape.faces :
            DrilledHole(f) =>
                /\ ListsOf(f) = {"through_holes"}
                /\ face_classifications[f] = "through"
                /\ \A v \in VertexRange(face_data[f]) :
                      response.body.mesh_data.vertex_colors[v] = "through"

\* the faces the loop of recognize_manufacturing_features has analysed
Analysed == 1..(fcursor - 1)

\* the ratio (radius * 2) / bbox_size of face f, in percent, as a band of
\* the threshold table: 0 below 15, 1 from 15 below 30, 2 from 30 below 50,
\* 3 from 50 on
Band(f) ==
    LET d == shape.faces[f].diameter * 100
        size == bbox_size(shape.box)
    IN  IF d < 15 * size THEN 0 ELSE IF d < 30 * size THEN 1
        ELSE IF d < 50 * size THEN 2 ELSE 3

\* the categories the threshold table allows for cylindrical face f
TableCategories(f) ==
    IF is_internal(shape.faces[f], shape.box)
    THEN IF Band(f) = 0 THEN {{"through_holes"}, {"blind_holes"}}
         ELSE IF Band(f) \in {1, 2} THEN {{"bores"}}
         ELSE {{}}
    ELSE IF Band(f) \in {0, 1} THEN {{"bosses"}} ELSE {{}}

\* C15: for bbox_size > 0, every analysed cylindrical face has one entry in
\* exactly the category of the threshold table and none elsewhere (internal
\* below 0.15 a through or blind hole, internal from 0.15 below 0.5 a bore,
\* external below 0.3 a boss, otherwise no feature); two faces on the same
\* side of every threshold and of the same orientation get the same kind of
\* category, and a ratio of exactly 0.15 is a bore.
C15_ThresholdTable ==
    (fpc # "idle" /\ bbox_size(shape.box) > 0) =>
        /\ \A f \in Analysed :
              shape.faces[f].surf_type = GeomAbs_Cylinder =>
                 /\ ListsOf(f) \in TableCategories(f)
                 /\ \A k \in ListsOf(f) : Entries(f, k) = 1
                 /\ (/\ is_internal(shape.faces[f], shape.box)
                     /\ shape.faces[f].diameter * 100 = 15 * bbox_size(shape.box))
                       => ListsOf(f) = {"bores"}
        /\ \A f, g \in Analysed :
              (/\ shape.faces[f].surf_type = GeomAbs_Cylinder
               /\ shape.faces[g].surf_type = GeomAbs_Cylinder
               /\ is_internal(shape.faces[f], shape.box) = is_internal(shape.faces[g], shape.box)
               /\ Band(f) = Band(g))
                 => \/ ListsOf(f) = ListsOf(g)
                    \/ ListsOf(f) \cup ListsOf(g) = {"through_holes", "blind_holes"}

\* C15 witness: the features are returned with an internal face of ratio
\* exactly 0.15 among the bores and one of ratio 0.14 among the holes
C15_Witness ==
    /\ fpc = "returned"
    /\ \E f, g \in DOMAIN shape.faces :
          /\ is_internal(shape.faces[f], shape.box)
          /\ shape.faces[f].diameter * 100 = 15 * bbox_size(shape.box)
          /\ ListsOf(f) = {"bores"}
          /\ is_internal(shape.faces[g], shape.box)
          /\ shape.faces[g].diameter * 100 = 14 * bbox_size(shape.box)
          /\ ListsOf(g) \in {{"through_holes"}, {"blind_holes"}}

\* two cylindrical faces about the same axis
Coaxial(f, g) ==
    /\ shape.faces[f].surf_type = GeomAbs_Cylinder
    /\ shape.faces[g].surf_type = GeomAbs_Cylinder
    /\ ~shape.faces[f].raises /\ ~shape.faces[g].raises
    /\ shape.faces[f].axis_point = shape.faces[g].axis_point

\* the radii of two faces differ by more than 5 percent
RadiiDiffer(f, g) ==
    LET a == shape.faces[f].diameter
        b == shape.faces[g].diameter
    IN  (IF a > b THEN a ELSE b) * 100 > (IF a > b THEN b ELSE a) * 105

\* the Groove features of the result
Grooves == IF "grooves" \in DOMAIN features THEN features.grooves ELSE <<>>

\* C16: two coaxial cylindrical faces whose radii differ by more than 5%
\* yield exactly one Groove, with inner and outer diameter twice the
\* smaller and twice the larger radius, and no hole, bore or boss of their own.
C16_CoaxialPairIsOneGroove ==
    (/\ fpc = "returned"
     /\ Len(shape.faces) = 2
     /\ Coaxial(1, 2)
     /\ RadiiDiffer(1, 2)) =>
        LET a == shape.faces[1].diameter
            b == shape.faces[2].diameter
        IN  /\ Len(Grooves) = 1
            /\ Grooves[1].inner_diameter = (IF a < b THEN a ELSE b)
            /\ Grooves[1].outer_diameter = (IF a < b THEN b ELSE a)
            /\ ListsOf(1) \cap {"through_holes", "blind_holes", "bores", "bosses"} = {}
            /\ ListsOf(2) \cap {"through_holes", "blind_holes", "bores", "bosses"} = {}

\* C17: every face, cylindrical or not, carries a topology label of its own
\* (outer, inner or through) when propagation starts.
C17_EveryFaceLabelledBeforePropagation ==
    (pc = "propagate" /\ iteration = 0 /\ pos = 1) =>
        \A f \in DOMAIN face_data :
            face_classifications[f] \in {"external", "internal", "through"}

\* C18: when the analysis of one face fails, the face is skipped, the other
\* faces are still analysed and analyze_cad returns a success response.
C18_FaceFailureDoesNotAbort ==
    (/\ apc = "done"
     /\ shape.upload = "step"
     /\ \E f \in DOMAIN shape.faces : shape.faces[f].raises) =>
        /\ response.http = 200
        /\ response.body.status = "success"
        /\ fcursor > Len(shape.faces)

\* C19: when the STEP file cannot be read or tessellation raises,
\* analyze_cad answers with one top-level error and no mesh data; a success
\* response never carries an empty mesh.
C19_KernelFailureIsAnError ==
    apc = "done" =>
        /\ (shape.upload = "unreadable" \/ (shape.tess_raises /\ fpc = "returned")) =>
              /\ response.http # 200
              /\ DOMAIN response.body \cap {"error", "mesh_data"} = {"error"}
        /\ response.http = 200 => response.body.mesh_data.vertices > 0

\* C20: a cylindrical face whose step-1 classification raised carries the
\* label external, on the face and on all its vertices, when
\* classify_mesh_faces returns.
C20_FailedCylinderEndsExternal ==
    pc = "done" =>
        \A f \in DOMAIN face_data :
            (IsCylinder(f) /\ face_data[f].raises) =>
                /\ face_classifications[f] = "external"
                /\ \A v \in VertexRange(face_data[f]) : vertex_colors[v] = "external"

-----------------------------------------------------------------------------
(* The polylines of extract_feature_edges *)

\* C22: a significant straight-line edge is resampled into a polyline of
\* exactly 2 points, its two endpoints.
C22_LineHasTwoPoints ==
    \A k \in DOMAIN feature_edges :
        edges[feature_edges[k].edge].curve_type = GeomAbs_Line =>
            feature_edges[k].points = 2

-----------------------------------------------------------------------------
(* The small-hole test of the two classifiers *)

\* C25: for every cylindrical face, classify_mesh_faces judges it a small
\* hole exactly when recognize_manufacturing_features does, that is exactly
\* when diameter / bbox_size < 0.15.
C25_SmallHoleTestAgrees ==
    (apc = "done" /\ response.http = 200 /\ ~shape.tess_raises) =>
        \A f \in DOMAIN shape.faces :
            (shape.faces[f].surf_type = GeomAbs_Cylinder /\ ~shape.faces[f].raises) =>
                (face_data[f].is_small_hole <=>
                    RatioBelow(shape.faces[f].diameter, bbox_size(shape.box), 15))

-----------------------------------------------------------------------------
(* The order of the labels under propagation *)

\* C28: propagation is monotone: in no step does the label of an unlocked
\* face move down the order planar < external < through < internal; a face
\* that has become internal is never relabelled.
C28_PropagationMonotone ==
    [][\A f \in DOMAIN face_data :
          (f \notin locked_faces /\ face_classifications[f] # NONE) =>
              /\ Prio(face_classifications'[f]) >= Prio(face_classifications[f])
              /\ face_classifications[f] = "internal" =>
                    face_classifications'[f] = "internal"]_vars

\* C28 witness: propagation has converged after raising an unlocked face,
\* first labelled external, to internal
C28_Witness ==
    /\ pc = "done"
    /\ ~changes_made
    /\ \E f \in DOMAIN face_data :
          /\ f \notin locked_faces
          /\ settled[f] = "external"
          /\ face_classifications[f] = "internal"

-----------------------------------------------------------------------------
(* Flooding of the internal label *)

\* faces f and g share an edge
Adjacent(f, g) ==
    f # g /\ \E e \in DOMAIN edge_face_map : {f, g} \subseteq Range(edge_face_map[e])

RECURSIVE FloodFrom(_)
\* the faces of S and every unlocked face joined to one of them by a path of
\* adjacent unlocked faces
FloodFrom(S) ==
    LET more == {f \in DOMAIN face_data \ (S \cup locked_faces) :
                    \E g \in S : Adjacent(f, g)}
    IN  IF more = {} THEN S ELSE FloodFrom(S \cup more)

\* the faces labelled internal
InternalFaces == {f \in DOMAIN face_data : face_classifications[f] = "internal"}

\* C30: when propagation has converged, every unlocked face connected to a
\* face labelled internal by a path of adjacent unlocked faces is itself
\* labelled internal, whatever its other neighbours are.
C30_InternalFloods ==
    (pc = "done" /\ ~changes_made) =>
        \A f \in FloodFrom(InternalFaces) : face_classifications[f] = "internal"

\* C30 witness: propagation has converged with an unlocked internal face that
\* has no locked internal neighbour (the label reached it through another
\* unlocked face) and that has a neighbour labelled external
C30_Witness ==
    /\ pc = "done"
    /\ ~changes_made
    /\ \E f \in DOMAIN face_data \ locked_faces :
          /\ face_classifications[f] = "internal"
          /\ \A g \in locked_faces : Adjacent(f, g) => face_classifications[g] # "internal"
          /\ \E g \in DOMAIN face_data : Adjacent(f, g) /\ face_classifications[g] = "external"

-----------------------------------------------------------------------------
(* Propagation over face_data in another order *)

RECURSIVE PassInOrder(_, _, _)
\* the labelling after one pass that evaluates the faces order[k], order[k+1],
\* ... in place
PassInOrder(order, k, cls) ==
    IF k > Len(order) THEN cls
    ELSE PassInOrder(order, k + 1,
                     IF Skipped(order[k]) THEN cls
                     ELSE [cls EXCEPT ![order[k]] = NewType(order[k], cls)])

RECURSIVE RunInOrder(_, _, _)
\* the passes it, it+1, ... of the propagation loop over the faces in the
\* given order: the final labelling and whether a pass without a change
\* ended the loop
RunInOrder(order, it, cls) ==
    LET after == PassInOrder(order, 1, cls)
    IN  IF after = cls THEN [labels |-> cls, converged |-> TRUE]
        ELSE IF RangeExhausted(it) THEN [labels |-> after, converged |-> FALSE]
        ELSE RunInOrder(order, it + 1, after)

\* the orders in which face_data of n faces is traversed. A pass skips the
\* locked faces, so an order is given by the order of the unlocked faces:
\* every permutation of them for a small shape, the reversal and the
\* rotations of all faces for a larger one
TraversalOrders(n) ==
    IF n <= MaxFaces + 1
    THEN LET unlocked == DOMAIN face_data \ locked_faces
             k == Cardinality(unlocked)
         IN  {order \in [1..k -> unlocked] : \A i, j \in 1..k : order[i] = order[j] => i = j}
    ELSE {[i \in 1..n |-> n + 1 - i]}
            \cup {[i \in 1..n |-> ((i + r - 1) % n) + 1] : r \in 1..(n - 1)}

\* C29: when propagation converges before the iteration bound, the final
\* face labels do not depend on the order in which face_data is traversed:
\* every traversal order that converges ends with the same label on every face.
C29_OrderIndependent ==
    (pc = "done" /\ ~changes_made) =>
        \A order \in TraversalOrders(Len(face_data)) :
            LET run == RunInOrder(order, 0, Step1Classifications)
            IN  run.converged => run.labels = face_classifications

\* C29 witness: propagation has converged after several passes on a shape on
\* which the reversed traversal passes through other labellings (its first
\* pass ends on another labelling than the first pass in face_data order did)
C29_Witness ==
    /\ pc = "done"
    /\ ~changes_made
    /\ iteration >= 2
    /\ LET n == Len(face_data)
           reversed == [i \in 1..n |-> n + 1 - i]
           identity == [i \in 1..n |-> i]
       IN  /\ PassInOrder(reversed, 1, Step1Classifications)
                 # PassInOrder(identity, 1, Step1Classifications)
           /\ RunInOrder(reversed, 0, Step1Classifications).converged

-----------------------------------------------------------------------------
(* tessellate_shape: the extraction loop *)

\* the indices given to the nodes of a face: face_vertices
FaceVerticesFromZero(start, nb_nodes) == [i \in 1..nb_nodes |-> i - 1]
FaceVertices(start, nb_nodes) == [i \in 1..nb_nodes |-> start + i - 1]

\* what one triangle appends to indices
TriangleIndices(tri, face_vertices, reversed_face) ==
    LET idx == <<face_vertices[tri[1]], face_vertices[tri[2]], face_vertices[tri[3]]>>
    IN  IF reversed_face THEN <<idx[1], idx[3], idx[2]>> ELSE idx

RECURSIVE FaceIndices(_, _, _, _)
\* what the triangles i, i+1, ... of a face append to indices
FaceIndices(triangles, i, face_vertices, reversed_face) ==
    IF i > Len(triangles) THEN <<>>
    ELSE TriangleIndices(triangles[i], face_vertices, reversed_face)
            \o FaceIndices(triangles, i + 1, face_vertices, reversed_face)

\* one iteration of the second "while face_explorer.More()"
ExtractFace ==
    /\ tpc = "extract"
    /\ face_idx <= Len(triangulations)
    /\ LET triangulation == triangulations[face_idx]
       IN  IF triangulation = None
           THEN \* "if triangulation is None: ... continue"
                /\ face_idx' = face_idx + 1
                /\ UNCHANGED <<face_data, current_index, indices, tpc>>
           ELSE IF triangulation[1].raises
           THEN \* "except Exception": the empty mesh is returned
                /\ face_data' = <<>>
                /\ current_index' = 0
                /\ indices' = <<>>
                /\ tpc' = "returned"
                /\ UNCHANGED face_idx
           ELSE LET t == triangulation[1]
                    face_start_vertex == current_index
                    face_vertices == FaceVertices(current_index, t.nb_nodes)
                    face_start_index == Len(indices)
                    extended == indices \o FaceIndices(t.triangles, 1, face_vertices, t.reversed)
                IN  /\ current_index' = current_index + t.nb_nodes
                    /\ indices' = extended
                    /\ face_data' = Append(face_data,
                          [face_idx |-> face_idx,
                           surf_type |-> t.surf_type,
                           start_vertex |-> face_start_vertex,
                           vertex_count |-> Len(face_vertices),
                           start_index |-> face_start_index,
                           triangle_count |-> (Len(extended) - face_start_index) \div 3])
                    /\ face_idx' = face_idx + 1
                    /\ tpc' = tpc
    /\ UNCHANGED triangulations
    /\ UNCHANGED <<edge_face_map, face_classifications, locked_faces, vertex_colors,
                   iteration, pos, changes_made, pc, settled>>
    /\ UNCHANGED <<edgeVars, featureVars, analyzeVars, meshVars>>

\* the loop ends: "return {...}"
ReturnMesh ==
    /\ tpc = "extract"
    /\ face_idx > Len(triangulations)
    /\ tpc' = "returned"
    /\ UNCHANGED <<triangulations, face_idx, current_index, indices>>
    /\ UNCHANGED <<classifyVars, edgeVars, featureVars, analyzeVars, meshVars>>

(* Triangulations given to tessellate_shape *)

\* faces of a tessellated shape
MaxMeshFaces == 3

\* what the kernel holds for one face after BRepMesh_IncrementalMesh: no
\* triangulation, or its nodes and triangles (node numbers from 1), or a face
\* on which the extraction raises
Triangulation(surf_type, nb_nodes, triangles, reversed) ==
    Some([surf_type |-> surf_type, nb_nodes |-> nb_nodes, triangles |-> triangles,
          reversed |-> reversed, raises |-> FALSE])

TriangulationCases ==
    {None}
        \cup {Triangulation(GeomAbs_Plane, 3, <<<<1, 2, 3>>>>, reversed) : reversed \in BOOLEAN}
        \cup {Triangulation(GeomAbs_Plane, 4, <<<<1, 2, 3>>, <<1, 3, 4>>>>, reversed) :
                 reversed \in BOOLEAN}
        \cup {Triangulation(GeomAbs_Cylinder, 4, <<<<2, 3, 4>>, <<4, 1, 2>>>>, FALSE),
              Triangulation(GeomAbs_Other, 3, <<>>, FALSE),
              Some([surf_type |-> GeomAbs_Plane, nb_nodes |-> 3, triangles |-> <<<<1, 2, 3>>>>,
                    reversed |-> FALSE, raises |-> TRUE])}

TessInit ==
    /\ \E n \in 1..MaxMeshFaces : triangulations \in [1..n -> TriangulationCases]
    /\ face_idx = 1
    /\ current_index = 0
    /\ indices = <<>>
    /\ tpc = "extract"
    /\ ClassifyIdle
    /\ EdgeIdle
    /\ FeatureIdle
    /\ AnalyzeIdle
    /\ MeshIdle

TessNext ==
    \/ ExtractFace
    \/ ReturnMesh

TessSpec == TessInit /\ [][TessNext]_vars

(* Properties of tessellate_shape *)

\* the positions of indices that hold the triangles of a face_data entry
IndexRange(face_info) ==
    (face_info.start_index + 1) .. (face_info.start_index + 3 * face_info.triangle_count)

\* C21: tessellate_shape does not weld vertices across faces: the vertex
\* ranges [start_vertex, start_vertex + vertex_count) of the face_data entries
\* are pairwise disjoint and together cover exactly the vertices
\* 0 .. vertex_count-1, and every triangle index recorded for a face lies
\* inside that face's own vertex range.
C21_FacesShareNoVertex ==
    tpc = "returned" =>
        /\ \A i, j \in DOMAIN face_data :
              i # j => VertexRange(face_data[i]) \cap VertexRange(face_data[j]) = {}
        /\ UNION {VertexRange(face_data[i]) : i \in DOMAIN face_data} = 0..(current_index - 1)
        /\ \A i \in DOMAIN face_data :
              \A k \in IndexRange(face_data[i]) :
                  /\ k \in DOMAIN indices
                  /\ indices[k] \in VertexRange(face_data[i])

\* C21 witness: a mesh is returned for a shape of three faces, one of which
\* has no triangulation; the second face recorded has two triangles
C21_Witness ==
    /\ tpc = "returned"
    /\ Len(face_data) = 2
    /\ Len(triangulations) = 3
    /\ face_data[2].triangle_count = 2
    /\ face_data[2].start_vertex > 0

-----------------------------------------------------------------------------
(* analyze_cad serving the same upload again *)

\* requests served by one process
MaxRequests == 2

\* the same upload is posted again: analyze_cad is entered in the state the
\* process was left in by the request before
NextRequest ==
    /\ apc = "done"
    /\ Len(served) < MaxRequests
    /\ apc' = "read"
    /\ response' = [http |-> 0]
    /\ UNCHANGED served
    /\ UNCHANGED <<classifyVars, edgeVars, featureVars, tessVars, meshVars>>

RepeatNext ==
    \/ AnalyzeNext
    \/ NextRequest

RepeatSpec == AnalyzeInit /\ [][RepeatNext]_vars

\* C24: determinism: analysing the same solid twice (same faces, edges,
\* adjacency and enumeration order) yields the same feature lists and the
\* same face and vertex labels; the result depends on no state left over
\* from an earlier request.
C24_SameSolidSameResult ==
    \A i, j \in DOMAIN served :
        /\ served[i].response.http = served[j].response.http
        /\ served[i].face_labels = served[j].face_labels
        /\ served[i].response.http = 200 =>
              /\ served[i].response.body.manufacturing_features
                     = served[j].response.body.manufacturing_features
              /\ served[i].response.body.mesh_data.vertex_colors
                     = served[j].response.body.mesh_data.vertex_colors

\* C24 witness: the second analysis of a solid is complete, with features
\* recognised and a face labelled other than external
C24_Witness ==
    /\ Len(served) = 2
    /\ served[2].response.http = 200
    /\ \E f \in DOMAIN served[2].face_labels : served[2].face_labels[f] \in {"internal", "through"}
    /\ \E k \in DOMAIN NoFeatures : served[2].response.body.manufacturing_features[k] # <<>>

-----------------------------------------------------------------------------
(* The mesh service: /mesh-cad, generate_adaptive_mesh, calculate_bbox_diagonal *)

\* threads of the server handling requests at the same time
MaxThreads == 2
Threads == 1..MaxThreads

\* thread t goes on to statement s
Goto(t, s) == mpc' = [mpc EXCEPT ![t] = s]
\* thread t returns the response with this status and is idle again
Reply(t, status) ==
    /\ mresponse' = [mresponse EXCEPT ![t] = status]
    /\ Goto(t, "idle")

\* a lock that can be taken while it is held
LockNeverHeld == TRUE
\* threading.Lock: acquire blocks until the lock is free
LockFree == gmsh_lock = 0

\* the exit of "with gmsh_lock" that forgets the lock when the body raises
LockKeptAfterRaise(t) == t
\* gmsh_lock when the body of "with gmsh_lock" is left by an exception
LockAfterRaise(t) == 0

\* mesh_cad up to the call of generate_adaptive_mesh: the request is
\* refused with 400 or reaches "with gmsh_lock"
Receive(t) ==
    /\ mpc[t] = "idle"
    /\ \E has_file \in BOOLEAN : \E quality_known \in BOOLEAN :
          IF ~has_file \/ ~quality_known
          THEN Reply(t, 400)
          ELSE /\ mresponse' = [mresponse EXCEPT ![t] = 0]
               /\ Goto(t, "acquire")
    /\ UNCHANGED <<gmsh_lock, gmsh_initialized>>
    /\ UNCHANGED <<classifyVars, edgeVars, featureVars, analyzeVars, tessVars>>

\* "with gmsh_lock:" is entered
Acquire(t) ==
    /\ mpc[t] = "acquire"
    /\ LockFree
    /\ gmsh_lock' = t
    /\ Goto(t, "initialize")
    /\ UNCHANGED <<gmsh_initialized, mresponse>>
    /\ UNCHANGED <<classifyVars, edgeVars, featureVars, analyzeVars, tessVars>>

\* a statement of generate_adaptive_mesh or calculate_bbox_diagonal that
\* calls Gmsh: the call may raise; inside generate_adaptive_mesh the
\* exception is caught by "except Exception"
GmshCall(t, at, next, on_error) ==
    /\ mpc[t] = at
    /\ \E raises \in BOOLEAN : Goto(t, IF raises THEN on_error ELSE next)
    /\ UNCHANGED <<gmsh_lock, gmsh_initialized, mresponse>>
    /\ UNCHANGED <<classifyVars, edgeVars, featureVars, analyzeVars, tessVars>>

\* gmsh.initialize() of generate_adaptive_mesh
Initialize(t) ==
    /\ mpc[t] = "initialize"
    /\ gmsh_initialized' = TRUE
    /\ Goto(t, "merge")
    /\ UNCHANGED <<gmsh_lock, mresponse>>
    /\ UNCHANGED <<classifyVars, edgeVars, featureVars, analyzeVars, tessVars>>

\* gmsh.merge(step_file_path)
Merge(t) == GmshCall(t, "merge", "bbox_initialize", "except")

\* calculate_bbox_diagonal: gmsh.initialize()
BboxInitialize(t) ==
    /\ mpc[t] = "bbox_initialize"
    /\ gmsh_initialized' = TRUE
    /\ Goto(t, "bbox_measure")
    /\ UNCHANGED <<gmsh_lock, mresponse>>
    /\ UNCHANGED <<classifyVars, edgeVars, featureVars, analyzeVars, tessVars>>

\* calculate_bbox_diagonal: gmsh.merge and gmsh.model.getBoundingBox; on an
\* exception 100.0 is returned and gmsh.finalize() is not reached
BboxMeasure(t) == GmshCall(t, "bbox_measure", "bbox_finalize", "get_entities")

\* calculate_bbox_diagonal: gmsh.finalize(), then "return diagonal"
BboxFinalize(t) ==
    /\ mpc[t] = "bbox_finalize"
    /\ gmsh_initialized' = FALSE
    /\ Goto(t, "get_entities")
    /\ UNCHANGED <<gmsh_lock, mresponse>>
    /\ UNCHANGED <<classifyVars, edgeVars, featureVars, analyzeVars, tessVars>>

\* surfaces = gmsh.model.getEntities(2)
GetEntities(t) == GmshCall(t, "get_entities", "set_size", "except")

\* the loop over the surfaces: gmsh.model.mesh.setSize
SetSize(t) == GmshCall(t, "set_size", "generate", "except")

\* gmsh.model.mesh.generate(2)
Generate(t) == GmshCall(t, "generate", "get_mesh", "except")

\* gmsh.model.mesh.getNodes() and getElements(2)
GetMesh(t) == GmshCall(t, "get_mesh", "finalize", "except")

\* gmsh.finalize() on the success path (it may raise on a session that is
\* not initialized)
Finalize(t) ==
    /\ mpc[t] = "finalize"
    /\ gmsh_initialized' = FALSE
    /\ \E raises \in BOOLEAN : Goto(t, IF raises /\ ~gmsh_initialized THEN "except" ELSE "return")
    /\ UNCHANGED <<gmsh_lock, mresponse>>
    /\ UNCHANGED <<classifyVars, edgeVars, featureVars, analyzeVars, tessVars>>

\* "return {...}" leaves "with gmsh_lock"; mesh_cad answers 200
Return(t) ==
    /\ mpc[t] = "return"
    /\ gmsh_lock' = 0
    /\ Reply(t, 200)
    /\ UNCHANGED gmsh_initialized
    /\ UNCHANGED <<classifyVars, edgeVars, featureVars, analyzeVars, tessVars>>

\* "except Exception as e": logger.error, gmsh.finalize()
Except(t) ==
    /\ mpc[t] = "except"
    /\ gmsh_initialized' = FALSE
    /\ Goto(t, "raise")
    /\ UNCHANGED <<gmsh_lock, mresponse>>
    /\ UNCHANGED <<classifyVars, edgeVars, featureVars, analyzeVars, tessVars>>

\* "raise" leaves "with gmsh_lock"; mesh_cad catches the exception and
\* answers 500
Raise(t) ==
    /\ mpc[t] = "raise"
    /\ gmsh_lock' = LockAfterRaise(t)
    /\ Reply(t, 500)
    /\ UNCHANGED gmsh_initialized
    /\ UNCHANGED <<classifyVars, edgeVars, featureVars, analyzeVars, tessVars>>

\* the steps of thread t inside "with gmsh_lock"
Locked(t) ==
    \/ Initialize(t)
    \/ Merge(t)
    \/ BboxInitialize(t)
    \/ BboxMeasure(t)
    \/ BboxFinalize(t)
    \/ GetEntities(t)
    \/ SetSize(t)
    \/ Generate(t)
    \/ GetMesh(t)
    \/ Finalize(t)
    \/ Return(t)
    \/ Except(t)
    \/ Raise(t)

MeshInit ==
    /\ gmsh_lock = 0
    /\ gmsh_initialized = FALSE
    /\ mpc = [t \in Threads |-> "idle"]
    /\ mresponse = [t \in Threads |-> 0]
    /\ ClassifyIdle
    /\ EdgeIdle
    /\ FeatureIdle
    /\ AnalyzeIdle
    /\ TessIdle

MeshNext ==
    \E t \in Threads :
        \/ Receive(t)
        \/ Acquire(t)
        \/ Locked(t)

MeshSpec == MeshInit /\ [][MeshNext]_vars

\* fair scheduling: a thread that can take a step inside the lock takes it,
\* and a thread that finds the lock free again and again acquires it
MeshFairSpec ==
    /\ MeshSpec
    /\ \A t \in Threads : WF_vars(Locked(t))
    /\ \A t \in Threads : SF_vars(Acquire(t))

(* Properties of the mesh service *)

\* the statements of generate_adaptive_mesh that call Gmsh
GmshStatements ==
    {"initialize", "merge", "bbox_initialize", "bbox_measure", "bbox_finalize",
     "get_entities", "set_size", "generate", "get_mesh", "finalize", "except"}

\* thread t is executing Gmsh calls
InGmsh(t) == mpc[t] \in GmshStatements

\* C23: mutual exclusion around the meshing kernel: at most one thread at a
\* time is executing Gmsh calls, and every Gmsh call made while serving a
\* request, those of calculate_bbox_diagonal included, is made by the thread
\* that holds gmsh_lock.
C23_MutualExclusion ==
    /\ \A t \in Threads : InGmsh(t) => gmsh_lock = t
    /\ \A s, t \in Threads : (InGmsh(s) /\ InGmsh(t)) => s = t

\* C23 witness: a thread is inside calculate_bbox_diagonal while another
\* waits for the lock
C23_Witness ==
    \E s, t \in Threads :
        /\ mpc[s] = "bbox_measure"
        /\ mpc[t] = "acquire"

\* thread t takes a step from one of these statements
StepsFrom(t, statements) == mpc[t] \in statements /\ mpc'[t] # mpc[t]

\* C26: gmsh.initialize and gmsh.finalize strictly alternate, and every Gmsh
\* model or mesh call runs while the session opened at the start of
\* generate_adaptive_mesh is still initialized: initialize is called on a
\* finalized session only, finalize on an initialized one only (on the
\* success path and on the failure path), and the nested
\* calculate_bbox_diagonal does not leave the session finalized.
C26_SessionLifecycle ==
    [][\A t \in Threads :
          /\ StepsFrom(t, {"initialize", "bbox_initialize"}) => ~gmsh_initialized
          /\ StepsFrom(t, {"bbox_finalize", "finalize", "except"}) => gmsh_initialized
          /\ StepsFrom(t, {"get_entities", "set_size", "generate", "get_mesh"}) =>
                gmsh_initialized]_vars

\* C27: gmsh_lock is released on every exit path of generate_adaptive_mesh,
\* also when mesh generation raises, so a failed request never blocks later
\* ones: under fair scheduling every request waiting for the lock
\* eventually acquires it.
C27_LockReleasedAndAcquired ==
    /\ [](\A t \in Threads : mpc[t] \in {"idle", "acquire"} => gmsh_lock # t)
    /\ \A t \in Threads : (mpc[t] = "acquire") ~> (gmsh_lock = t)

\* C27 witness: a request holds the lock after another request has failed
C27_Witness ==
    \E s, t \in Threads :
        /\ mresponse[s] = 500
        /\ mpc[s] = "idle"
        /\ gmsh_lock = t
        /\ mpc[t] = "generate"

====
